---------------------------- MODULE Spec2Model ----------------------------
(***************************************************************************)
(* A model of mbtilesd (src/mbtilesd/app.py, src/mbtilesd/exceptions.py):  *)
(* the tileset locator get_mbtiles, the TileJSON view tilejson, the tile   *)
(* view tile with its two bindings tile_png and jpgtile, and the mapping   *)
(* of exceptions to HTTP responses.                                        *)
(*                                                                         *)
(* One tileset name is modelled.  Under every search root the file         *)
(* <name>.mbtiles is absent, a valid archive or a corrupt file.  Each      *)
(* request slot runs one view at a time, one source statement group per    *)
(* step, so that several requests interleave at every access to the        *)
(* filesystem or to an archive.                                            *)
(*                                                                         *)
(* Optional values (None in the source) are sequences of length 0 or 1.    *)
(***************************************************************************)
EXTENDS Integers, Sequences, FiniteSets, TLC

\* ------------------------------------------------------------- bounds
NumRoots == 2        \* entries of config['PATHS']
NumReqs == 2         \* request slots that may be in flight together
MaxZoom == 1         \* zoom levels 0..MaxZoom are requested and stored
MaxTime == 2         \* header times are 0..MaxTime seconds (UTC)
MaxUtcOffset == 1    \* the server's local time is UTC + (-MaxUtcOffset..MaxUtcOffset)
TicksPerSec == 2     \* resolution of the file system's modification time

Roots == 1..NumRoots
Reqs == 1..NumReqs
Zooms == 0..MaxZoom
Times == 0..MaxTime
UtcOffsets == (0 - MaxUtcOffset)..MaxUtcOffset

None == <<>>
Some(v) == <<v>>
Opt(S) == {None} \cup {Some(v) : v \in S}

Pow2(n) == 2 ^ n

\* ------------------------------------------------------------- state
VARIABLES
    fs,           \* fs[root]: the state of <name>.mbtiles under the root
    archiveMeta,  \* archiveMeta[root]: x-minzoom / x-maxzoom in the archive's metadata table
    tableEmpty,   \* tableEmpty[root]: the archive's tile table holds no row
    utcOffset,    \* the server's local time zone, as an offset from UTC
    persists,     \* whether the adapter's metadata mapping writes through to the archive
    pc,           \* pc[r]: where request slot r is in its view
    req,          \* req[r]: the request being handled
    h,            \* h[r]: the handle bound by `with ... as mbtiles`, or None
    openHandles,  \* every archive handle that is open
    hmeta,        \* hmeta[r]: the metadata mapping of r's handle
    mtime,        \* mtime[r]: the local variable mtime of tile
    zoom,         \* zoom[r]: the local variables <<minzoom, maxzoom>> of tilejson
    resp,         \* resp[r]: the response, once the view has returned or raised
    opened,       \* opened[r]: the roots whose file r passed to MBTiles()
    gets,         \* gets[r]: the <<x, row, z>> that r passed to MBTiles.get
    queries,      \* queries[r]: the aggregate zoom queries r has run
    lacked        \* lacked[r]: whether x-minzoom or x-maxzoom was missing when r read them

env == <<fs, tableEmpty, utcOffset, persists>>
locals == <<req, hmeta, mtime, zoom>>
ghosts == <<opened, gets, queries, lacked>>
vars == <<fs, archiveMeta, tableEmpty, utcOffset, persists, pc, req, h, openHandles,
          hmeta, mtime, zoom, resp, opened, gets, queries, lacked>>

\* ------------------------------------------------------------- the archives
\* What os.path.exists and MBTiles(filename) find under a root.
FileStates == {"absent", "valid", "corrupt"}

\* Metadata.latest().FORMATS
PNG == "png"
JPG == "jpg"
Formats == {PNG, JPG}

\* metadata['format'] of the archive under a root: both formats occur.
FormatOf(root) == IF root % 2 = 1 THEN PNG ELSE JPG

\* The tile table of the archive under a root, in the archive's own (TMS)
\* addressing: the rows (zoom_level, tile_column, tile_row) it holds.
HasTile(root, z, x, row) ==
    /\ ~tableEmpty[root]
    /\ z \in Zooms
    /\ x \in 0..(Pow2(z) - 1)
    /\ row \in 0..(Pow2(z) - 1)
    /\ (x + row + root) % 2 = 0

\* tile_data of a stored row: distinct for every archive and every row.
TileData(root, z, x, row) == <<root, z, x, row>>

\* MBTiles.get(x, y, z): the stored bytes, or None.
MBTilesGet(root, x, row, z) ==
    IF HasTile(root, z, x, row) THEN Some(TileData(root, z, x, row)) ELSE None

StoredZooms(root) ==
    {z \in Zooms : \E x \in 0..(Pow2(z) - 1), row \in 0..(Pow2(z) - 1) :
                       HasTile(root, z, x, row)}

SetMin(S) == CHOOSE m \in S : \A n \in S : m <= n
SetMax(S) == CHOOSE m \in S : \A n \in S : m >= n

\* "SELECT MIN(zoom_level), MAX(zoom_level) FROM tiles": (None, None) on an
\* empty table.
SelectMinMaxZoom(root) ==
    IF StoredZooms(root) = {} THEN <<None, None>>
    ELSE <<Some(SetMin(StoredZooms(root))), Some(SetMax(StoredZooms(root)))>>

\* os.path.getmtime(filename): a float, here in ticks.
GetMTimeTicks(root) == TicksPerSec + root

\* int(os.path.getmtime(...)): truncation to whole seconds.
IntSeconds(ticks) == ticks \div TicksPerSec

\* The archives the model starts from: the zoom keys of the metadata table
\* (none, one, both) and whether the tile table holds any row.
ArchiveVariants ==
    { [meta |-> [minzoom |-> None,    maxzoom |-> None],          empty |-> FALSE],
      [meta |-> [minzoom |-> Some(0), maxzoom |-> None],          empty |-> FALSE],
      [meta |-> [minzoom |-> Some(0), maxzoom |-> Some(MaxZoom)], empty |-> FALSE],
      [meta |-> [minzoom |-> None,    maxzoom |-> None],          empty |-> TRUE] }

\* ------------------------------------------------------------- requests
\* A query value of `callback`, as its sequence of characters.
Letters == {"a", "v", "N"}
Digits == {"1", "2", "4"}
Underscore == "_"
Newline == "\n"
WordChars == Letters \cup Digits \cup {Underscore}

Callbacks ==
    { <<"v", "_", "N", "1">>,     \* valid_Name1
      <<"4", "2", "a">>,          \* 42bad: leading digit
      <<"a", Newline>>,           \* an identifier and a trailing line feed
      <<>> }                      \* ?callback= (empty, not None)

\* re.match('[A-Za-z_]\w*$', jsonp): the pattern is anchored at the start,
\* and `$` matches at the end of the string or before a final line feed.
IsIdentifier(s) ==
    /\ Len(s) >= 1
    /\ s[1] \in Letters \cup {Underscore}
    /\ \A i \in 2..Len(s) : s[i] \in WordChars

ReMatch(s) ==
    \/ IsIdentifier(s)
    \/ /\ Len(s) >= 2
       /\ s[Len(s)] = Newline
       /\ IsIdentifier(SubSeq(s, 1, Len(s) - 1))

NoArgs == [format |-> PNG, x |-> 0, y |-> 0, z |-> 0, ims |-> None, ius |-> None]

\* GET /v3/<name>.json[?callback=...]
JsonRequests ==
    { [kind |-> "json", format |-> NoArgs.format, x |-> 0, y |-> 0, z |-> 0,
       ims |-> None, ius |-> None, callback |-> cb] : cb \in Opt(Callbacks) }

\* GET /v3/<name>/<z>/<x>/<y>.png and .jpg, with the conditional headers.
TileRequests ==
    UNION { { [kind |-> "tile", format |-> f, x |-> x, y |-> y, z |-> z,
               ims |-> ims, ius |-> ius, callback |-> None] :
                 f \in Formats, x \in 0..(Pow2(z) - 1), y \in 0..(Pow2(z) - 1),
                 ims \in Opt(Times), ius \in Opt(Times) } : z \in Zooms }

Requests == JsonRequests \cup TileRequests

\* The requests of the concurrent specification: a TileJSON request, with
\* and without a rejected callback, and the tile at (0, 0, 0) on both
\* endpoints, unconditional and conditional.
ConcRequests ==
    { q \in Requests :
        \/ q.kind = "json" /\ q.callback \in {None, Some(<<"4", "2", "a">>)}
        \/ q.kind = "tile" /\ q.z = 0 /\ q.ius = None /\ q.ims \in {None, Some(MaxTime)} }

\* ------------------------------------------------------------- responses
Response(status, ctype, text, data, cb) ==
    [status |-> status, ctype |-> ctype, text |-> text, data |-> data, cb |-> cb,
     lastmod |-> None]

\* exceptions.py: every NotFound renders as a plain-text 404 of its description.
NotFoundResponse(description) == Response(404, "text/plain", description, <<>>, <<>>)
TileNotFound == NotFoundResponse("Tile does not exist")
TilesetNotFound == NotFoundResponse("Tileset does not exist")

\* abort(400), and an exception no handler is registered for.
BadRequest == Response(400, "text/html", "Bad Request", <<>>, <<>>)
InternalServerError == Response(500, "text/html", "Internal Server Error", <<>>, <<>>)

\* What MBTiles(filename) raises on a file it cannot open or validate.
OpenFailures == {"InvalidFileError", "IOError"}

\* `except (InvalidFileError, IOError)`: os.error (OSError) is neither, nor
\* are TypeError and the HTTP exceptions.
\* (variant: `except IOError` alone)
CaughtOnlyIOError(exc) == exc = "IOError"
Caught(exc) == exc \in {"InvalidFileError", "IOError"}

\* The response to an exception raised inside the view's try block.
ErrorResponse(exc) ==
    IF Caught(exc) THEN TilesetNotFound
    ELSE CASE exc = "TileNotFound" -> TileNotFound
           [] exc = "BadRequest" -> BadRequest
           [] OTHER -> InternalServerError

NoRequest == [kind |-> "none", format |-> NoArgs.format, x |-> 0, y |-> 0, z |-> 0,
              ims |-> None, ius |-> None, callback |-> None]
NoMeta == [minzoom |-> None, maxzoom |-> None]

Init ==
    /\ fs \in [Roots -> FileStates]
    /\ \E a \in ArchiveVariants :
          /\ archiveMeta = [p \in Roots |-> a.meta]
          /\ tableEmpty = [p \in Roots |-> a.empty]
    /\ utcOffset \in UtcOffsets
    /\ persists \in BOOLEAN
    /\ pc = [r \in Reqs |-> "idle"]
    /\ req = [r \in Reqs |-> NoRequest]
    /\ h = [r \in Reqs |-> None]
    /\ openHandles = {}
    /\ hmeta = [r \in Reqs |-> NoMeta]
    /\ mtime = [r \in Reqs |-> None]
    /\ zoom = [r \in Reqs |-> <<None, None>>]
    /\ resp = [r \in Reqs |-> None]
    /\ opened = [r \in Reqs |-> {}]
    /\ gets = [r \in Reqs |-> {}]
    /\ queries = [r \in Reqs |-> 0]
    /\ lacked = [r \in Reqs |-> None]

\* ------------------------------------------------------------- the locator
\* get_mbtiles: the loop over config['PATHS'] from entry i on; the root whose
\* file is handed to MBTiles(), or None when the loop ends (IOError ENOENT).
\* (variant: the latest match wins)
RECURSIVE SearchPathsLatest(_)
SearchPathsLatest(i) ==
    IF i > NumRoots THEN None
    ELSE IF SearchPathsLatest(i + 1) # None THEN SearchPathsLatest(i + 1)
    ELSE IF fs[i] # "absent" THEN Some(i) ELSE None

RECURSIVE SearchPaths(_)
SearchPaths(i) ==
    IF i > NumRoots THEN None
    ELSE IF fs[i] # "absent" THEN Some(i)
    ELSE SearchPaths(i + 1)

\* The handle MBTiles(filename) returns to request r.
MBTilesOpen(r, root) == [owner |-> r, root |-> root]

Held(r) == IF h[r] = None THEN {} ELSE {h[r][1]}
HandleRoot(r) == h[r][1].root

\* Leaving the `with` block, normally (exc = None) or by an exception: the
\* handles still open afterwards.
\* (variant: the handle is closed on the normal path only)
WithExitNoFinally(r, exc) == IF exc = None THEN openHandles \ Held(r) ELSE openHandles
WithExit(r, exc) == openHandles \ Held(r)

\* The view of request r ends with `response`; exc is the exception that
\* ended it, or None.
Return(r, exc, response) ==
    /\ pc' = [pc EXCEPT ![r] = "done"]
    /\ resp' = [resp EXCEPT ![r] = Some(response)]
    /\ openHandles' = WithExit(r, exc)
    /\ h' = [h EXCEPT ![r] = None]

Raise(r, exc) == Return(r, Some(exc), ErrorResponse(exc))

\* A request arrives and its view runs `with get_mbtiles(name=name) as mbtiles`.
GetMbtiles(r, q) ==
    /\ pc[r] = "idle"
    /\ req' = [req EXCEPT ![r] = q]
    /\ LET found == SearchPaths(1) IN
       IF found = None
       THEN /\ Raise(r, "IOError")
            /\ UNCHANGED <<hmeta, opened>>
       ELSE LET root == found[1] IN
            /\ opened' = [opened EXCEPT ![r] = @ \cup {root}]
            /\ IF fs[root] = "corrupt"
               THEN /\ \E exc \in OpenFailures : Raise(r, exc)
                    /\ UNCHANGED hmeta
               ELSE /\ h' = [h EXCEPT ![r] = Some(MBTilesOpen(r, root))]
                    /\ openHandles' = openHandles \cup {MBTilesOpen(r, root)}
                    /\ hmeta' = [hmeta EXCEPT ![r] = archiveMeta[root]]
                    /\ pc' = [pc EXCEPT ![r] = "opened"]
                    /\ UNCHANGED resp
    /\ UNCHANGED <<env, archiveMeta, mtime, zoom, gets, queries, lacked>>

\* ------------------------------------------------------------- the tile view
\* content_type of the two bindings tile_png and jpgtile.
ContentType(format) == IF format = PNG THEN "image/png" ELSE "image/jpeg"

\* `mbtiles.metadata['format'] != format`
\* (variant: no format check)
FormatMismatchNever(stored, format) == FALSE
FormatMismatch(stored, format) == stored # format

\* datetime.fromtimestamp(mtime): the naive local time of a POSIX timestamp,
\* as seconds.  request.if_modified_since and request.if_unmodified_since are
\* the naive UTC times of the headers.
FromTimestamp(t) == t + utcOffset

\* The condition of the 304 return.
NotModified(mdatetime, modified_since, unmodified_since) ==
    \/ modified_since # None /\ mdatetime <= modified_since[1]
    \/ unmodified_since # None /\ mdatetime > unmodified_since[1]

\* The row handed to MBTiles.get for the request's y.
FlipY(y, z) == Pow2(z) - 1 - y

\* tile, line 177: the format check.
CheckFormat(r) ==
    /\ pc[r] = "opened"
    /\ req[r].kind = "tile"
    /\ IF FormatMismatch(FormatOf(HandleRoot(r)), req[r].format)
       THEN Raise(r, "TileNotFound")
       ELSE /\ pc' = [pc EXCEPT ![r] = "stat"]
            /\ UNCHANGED <<h, openHandles, resp>>
    /\ UNCHANGED <<env, archiveMeta, locals, ghosts>>

\* tile, lines 182-188: the modification time, which os.path.getmtime may
\* fail to read (os.error), and the conditional return.
Conditional(r) ==
    /\ pc[r] = "stat"
    /\ \/ /\ Raise(r, "OSError")
          /\ UNCHANGED mtime
       \/ LET t == IntSeconds(GetMTimeTicks(HandleRoot(r))) IN
          /\ mtime' = [mtime EXCEPT ![r] = Some(t)]
          /\ IF NotModified(FromTimestamp(t), req[r].ims, req[r].ius)
             THEN Return(r, None, Response(304, "text/html", "", <<>>, <<>>))
             ELSE /\ pc' = [pc EXCEPT ![r] = "get"]
                  /\ UNCHANGED <<h, openHandles, resp>>
    /\ UNCHANGED <<env, archiveMeta, req, hmeta, zoom, ghosts>>

\* tile, lines 190-207: the lookup and the 200 response.
GetTile(r) ==
    /\ pc[r] = "get"
    /\ LET x == req[r].x
           z == req[r].z
           row == FlipY(req[r].y, z)
           content == MBTilesGet(HandleRoot(r), x, row, z)
       IN /\ gets' = [gets EXCEPT ![r] = @ \cup {<<x, row, z>>}]
          /\ IF content = None
             THEN Raise(r, "TileNotFound")
             ELSE Return(r, None,
                         [Response(200, ContentType(req[r].format), "", content[1], <<>>)
                              EXCEPT !.lastmod = mtime[r]])
    /\ UNCHANGED <<env, archiveMeta, locals, opened, queries, lacked>>

\* ------------------------------------------------------------- the TileJSON view
\* The metadata mapping request r reads: the archive's table when the
\* adapter's mapping writes through, the handle's own mapping otherwise.
Metadata(r) == IF persists THEN archiveMeta[HandleRoot(r)] ELSE hmeta[r]

\* tilejson, lines 102-125: the descriptor's fixed fields; os.path.getsize
\* may fail (os.error).
Describe(r) ==
    /\ pc[r] = "opened"
    /\ req[r].kind = "json"
    /\ \/ Raise(r, "OSError")
       \/ /\ pc' = [pc EXCEPT ![r] = "zoom"]
          /\ UNCHANGED <<h, openHandles, resp>>
    /\ UNCHANGED <<env, archiveMeta, locals, ghosts>>

\* `if maxzoom is None or minzoom is None`
\* (variant: `and` for `or`)
NeedsQueryBoth(minzoom, maxzoom) == maxzoom = None /\ minzoom = None
NeedsQuery(minzoom, maxzoom) == maxzoom = None \/ minzoom = None

\* tilejson, lines 127-133: the zoom keys, and the aggregate query when one
\* of them is missing.
ResolveZoom(r) ==
    /\ pc[r] = "zoom"
    /\ LET maxzoom == Metadata(r).maxzoom
           minzoom == Metadata(r).minzoom
       IN /\ lacked' = [lacked EXCEPT ![r] =
                            Some(Metadata(r).minzoom = None \/ Metadata(r).maxzoom = None)]
          /\ IF NeedsQuery(minzoom, maxzoom)
             THEN /\ zoom' = [zoom EXCEPT ![r] = SelectMinMaxZoom(HandleRoot(r))]
                  /\ queries' = [queries EXCEPT ![r] = @ + 1]
                  /\ pc' = [pc EXCEPT ![r] = "store_min"]
             ELSE /\ zoom' = [zoom EXCEPT ![r] = <<minzoom, maxzoom>>]
                  /\ pc' = [pc EXCEPT ![r] = "render"]
                  /\ UNCHANGED queries
    /\ UNCHANGED <<env, archiveMeta, req, hmeta, mtime, h, openHandles, resp, opened, gets>>

\* metadata[key] = value on r's handle.
SetItem(r, key, value) ==
    /\ hmeta' = [hmeta EXCEPT ![r][key] = value]
    /\ archiveMeta' = IF persists
                      THEN [archiveMeta EXCEPT ![HandleRoot(r)][key] = value]
                      ELSE archiveMeta

\* tilejson, line 134: metadata['x-minzoom'] = minzoom
StoreMinZoom(r) ==
    /\ pc[r] = "store_min"
    /\ SetItem(r, "minzoom", zoom[r][1])
    /\ pc' = [pc EXCEPT ![r] = "store_max"]
    /\ UNCHANGED <<env, req, mtime, zoom, h, openHandles, resp, ghosts>>

\* tilejson, line 135: metadata['x-maxzoom'] = maxzoom
StoreMaxZoom(r) ==
    /\ pc[r] = "store_max"
    /\ SetItem(r, "maxzoom", zoom[r][2])
    /\ pc' = [pc EXCEPT ![r] = "render"]
    /\ UNCHANGED <<env, req, mtime, zoom, h, openHandles, resp, ghosts>>

\* tilejson, lines 136-163: int() of both bounds (TypeError on None), the
\* check of the callback, and the JSON or JSONP response.
Render(r) ==
    /\ pc[r] = "render"
    /\ LET jsonp == req[r].callback IN
       IF zoom[r][1] = None \/ zoom[r][2] = None
       THEN Raise(r, "TypeError")
       ELSE IF jsonp # None /\ ~ReMatch(jsonp[1])
       THEN Raise(r, "BadRequest")
       ELSE IF jsonp # None
       THEN Return(r, None, Response(200, "application/javascript", "",
                                     <<zoom[r][1][1], zoom[r][2][1]>>, jsonp))
       ELSE Return(r, None, Response(200, "application/json", "",
                                     <<zoom[r][1][1], zoom[r][2][1]>>, None))
    /\ UNCHANGED <<env, archiveMeta, locals, ghosts>>

\* ------------------------------------------------------------- the server
\* The response is sent and the slot takes the next request.
Finish(r) ==
    /\ pc[r] = "done"
    /\ pc' = [pc EXCEPT ![r] = "idle"]
    /\ req' = [req EXCEPT ![r] = NoRequest]
    /\ hmeta' = [hmeta EXCEPT ![r] = NoMeta]
    /\ mtime' = [mtime EXCEPT ![r] = None]
    /\ zoom' = [zoom EXCEPT ![r] = <<None, None>>]
    /\ resp' = [resp EXCEPT ![r] = None]
    /\ opened' = [opened EXCEPT ![r] = {}]
    /\ gets' = [gets EXCEPT ![r] = {}]
    /\ queries' = [queries EXCEPT ![r] = 0]
    /\ lacked' = [lacked EXCEPT ![r] = None]
    /\ UNCHANGED <<env, archiveMeta, h, openHandles>>

Step(r) ==
    \/ CheckFormat(r)
    \/ Conditional(r)
    \/ GetTile(r)
    \/ Describe(r)
    \/ ResolveZoom(r)
    \/ StoreMinZoom(r)
    \/ StoreMaxZoom(r)
    \/ Render(r)
    \/ Finish(r)

\* One request at a time, any request.
Arrive == pc[1] = "idle" /\ \E q \in Requests : GetMbtiles(1, q)
Handle == Step(1)
Next == Arrive \/ Handle
Spec == Init /\ [][Next]_vars

\* Every slot serves requests, interleaved at every step.  The roots all
\* hold the same kind of file and the server runs in UTC: the locator and
\* the time zone are exercised by Spec.
ConcInit ==
    /\ Init
    /\ utcOffset = 0
    /\ \A p \in Roots : fs[p] = fs[1]
ConcArrive == \E r \in Reqs : pc[r] = "idle" /\ \E q \in ConcRequests : GetMbtiles(r, q)
ConcHandle == \E r \in Reqs : Step(r)
ConcNext == ConcArrive \/ ConcHandle
ConcSpec == ConcInit /\ [][ConcNext]_vars

\* ------------------------------------------------------------- properties
Done(r) == pc[r] = "done"
Reply(r) == resp[r][1]

\* The earliest search root that holds <name>.mbtiles, if any.
Existing == {p \in Roots : fs[p] # "absent"}
IsEarliest(p) == p \in Existing /\ \A p2 \in Existing : p <= p2

\* The tileset is located and opens: the archive the request is served from.
Serves(p) == IsEarliest(p) /\ fs[p] = "valid"

\* The archive's modification time in whole seconds (UTC).
ArchiveMTime(p) == GetMTimeTicks(p) \div TicksPerSec

\* The smallest and the largest zoom level of the rows of the tile table.
HasZoom(p, z) ==
    \E x \in 0..(Pow2(z) - 1), row \in 0..(Pow2(z) - 1) : HasTile(p, z, x, row)
IsMinZoom(p, z) == HasZoom(p, z) /\ \A z2 \in Zooms : HasZoom(p, z2) => z <= z2
IsMaxZoom(p, z) == HasZoom(p, z) /\ \A z2 \in Zooms : HasZoom(p, z2) => z2 <= z

\* C1: a tile request on a located tileset of the endpoint's format that is
\* not answered 304 returns 200 with the bytes stored at (x, 2^z - 1 - y, z)
\* whenever the archive holds a tile there, and the archive is queried with
\* no other row.
TileServedFlipped ==
    \A r \in Reqs :
        /\ \A g \in gets[r] :
               g = <<req[r].x, Pow2(req[r].z) - 1 - req[r].y, req[r].z>>
        /\ \A p \in Roots :
               ( /\ Done(r)
                 /\ req[r].kind = "tile"
                 /\ Serves(p)
                 /\ FormatOf(p) = req[r].format
                 /\ Reply(r).status # 304
                 /\ HasTile(p, req[r].z, req[r].x, Pow2(req[r].z) - 1 - req[r].y) )
               => /\ Reply(r).status = 200
                  /\ Reply(r).data =
                         TileData(p, req[r].z, req[r].x, Pow2(req[r].z) - 1 - req[r].y)

\* C2: on a located tileset of the endpoint's format whose modification
\* time was read, the tile endpoint answers 304 with an empty body and no
\* tile lookup exactly when If-Modified-Since is at or after the archive's
\* modification time (in seconds) or If-Unmodified-Since is strictly before it.
NotModifiedExactly ==
    \A r \in Reqs : \A p \in Roots :
        ( /\ Done(r)
          /\ req[r].kind = "tile"
          /\ Serves(p)
          /\ FormatOf(p) = req[r].format
          /\ mtime[r] # None )
        => ( ( /\ Reply(r).status = 304
               /\ Reply(r).text = ""
               /\ Reply(r).data = <<>>
               /\ gets[r] = {} )
             <=> ( \/ req[r].ims # None /\ req[r].ims[1] >= ArchiveMTime(p)
                   \/ req[r].ius # None /\ req[r].ius[1] < ArchiveMTime(p) ) )

\* C3: a TileJSON request whose callback does not match [A-Za-z_]\w* is
\* answered 400 and no archive file is opened or queried during it, whatever
\* the tileset is.
BadCallbackBeforeArchive ==
    \A r \in Reqs :
        ( /\ Done(r)
          /\ req[r].kind = "json"
          /\ req[r].callback # None
          /\ ~IsIdentifier(req[r].callback[1]) )
        => /\ Reply(r).status = 400
           /\ opened[r] = {}
           /\ queries[r] = 0

\* C4: when no search root holds the file, or the first file found fails to
\* open, the TileJSON and the tile endpoints answer 404 "Tileset does not
\* exist", whatever the other parameters of the request.
MissingOrCorruptIs404 ==
    \A r \in Reqs :
        ( /\ Done(r)
          /\ \/ Existing = {}
             \/ \E p \in Roots : IsEarliest(p) /\ fs[p] = "corrupt" )
        => /\ Reply(r).status = 404
           /\ Reply(r).ctype = "text/plain"
           /\ Reply(r).text = "Tileset does not exist"

\* A corrupt first file answered 404 on the TileJSON endpoint, the request
\* carrying a callback the pattern rejects.
MissingOrCorruptIs404Witness ==
    \E r \in Reqs :
        /\ Done(r)
        /\ req[r].kind = "json"
        /\ req[r].callback = Some(<<"4", "2", "a">>)
        /\ fs[1] = "corrupt"
        /\ Reply(r).text = "Tileset does not exist"

\* C5: every open handle is held by the request that opened it, which is
\* still inside its `with` block; a request that has returned or raised, by
\* whatever path, holds none, so that no handle stays open once the requests
\* have finished.
HandlesScoped ==
    /\ \A r \in Reqs :
           h[r] # None => h[r][1] \in openHandles /\ h[r][1].owner = r
    /\ \A hh \in openHandles :
           /\ h[hh.owner] = Some(hh)
           /\ pc[hh.owner] \notin {"idle", "done"}

\* A request ended by an unhandled exception after it had opened the archive,
\* while another request still holds its own handle on the same file.
HandlesScopedWitness ==
    \E r \in Reqs : \E r2 \in Reqs \ {r} :
        /\ Done(r)
        /\ Reply(r).status = 500
        /\ opened[r] # {}
        /\ h[r2] # None
        /\ h[r2][1].root \in opened[r]
        /\ \A hh \in openHandles : hh.owner # r

\* C6: every TileJSON or tile request ends with status 200, 304, 400 or 404.
NoUnhandledError ==
    \A r \in Reqs : Done(r) => Reply(r).status \in {200, 304, 400, 404}

\* C7: a TileJSON request runs the aggregate zoom query once when it reads
\* the metadata without x-minzoom or x-maxzoom and not at all otherwise, and
\* the bounds it then returns are the smallest and the largest stored zoom.
ZoomQueriedOnce ==
    \A r \in Reqs :
        /\ lacked[r] = Some(TRUE) => queries[r] = 1
        /\ lacked[r] # Some(TRUE) => queries[r] = 0
        /\ ( Done(r) /\ lacked[r] = Some(TRUE) /\ Reply(r).status = 200 )
           => /\ \A p \in opened[r] : /\ IsMinZoom(p, Reply(r).data[1])
                                      /\ IsMaxZoom(p, Reply(r).data[2])
              /\ Reply(r).data[1] <= Reply(r).data[2]

\* A descriptor returned from an archive that stored only x-minzoom.
ZoomQueriedOnceWitness ==
    \E r \in Reqs :
        /\ Done(r)
        /\ Reply(r).status = 200
        /\ lacked[r] = Some(TRUE)
        /\ queries[r] = 1
        /\ opened[r] # {}
        /\ ~persists
        /\ \A p \in opened[r] : archiveMeta[p].minzoom # None

\* C8: on a located tileset whose format differs from the endpoint's, the
\* tile endpoint answers 404 "Tile does not exist" for every coordinate and
\* every pair of conditional headers, before the modification time is read
\* and without a tile lookup.
FormatMismatchIs404 ==
    \A r \in Reqs : \A p \in Roots :
        ( /\ Done(r)
          /\ req[r].kind = "tile"
          /\ Serves(p)
          /\ FormatOf(p) # req[r].format )
        => /\ Reply(r).status = 404
           /\ Reply(r).text = "Tile does not exist"
           /\ mtime[r] = None
           /\ gets[r] = {}

\* A JPEG store on the .png endpoint with an If-Modified-Since that would
\* otherwise give 304.
FormatMismatchIs404Witness ==
    \E r \in Reqs : \E p \in Roots :
        /\ Done(r)
        /\ req[r].kind = "tile"
        /\ Serves(p)
        /\ FormatOf(p) = JPG
        /\ req[r].format = PNG
        /\ req[r].ims = Some(MaxTime)
        /\ utcOffset = 0
        /\ Reply(r).text = "Tile does not exist"

\* C9: a request passes at most one file to MBTiles(), the one under the
\* earliest root that holds it, also when that file fails to open.
EarliestRootOnly ==
    \A r \in Reqs :
        /\ Cardinality(opened[r]) <= 1
        /\ \A p \in opened[r] : IsEarliest(p)
        /\ (pc[r] # "idle" /\ Existing # {}) => opened[r] # {}

\* The first root holds a corrupt file and the second a valid archive: only
\* the first was opened and the request failed.
EarliestRootOnlyWitness ==
    \E r \in Reqs :
        /\ Done(r)
        /\ fs[1] = "corrupt"
        /\ fs[2] = "valid"
        /\ opened[r] = {1}
        /\ Reply(r).status = 404

\* C10: no step of any request changes an archive.
ArchiveNeverWritten == [][archiveMeta' = archiveMeta]_vars

==========================================================================
